---- MODULE Spec2Model ----
(***************************************************************************)
(* Products service: the entity model (service/models.py) and the request *)
(* handlers (service/routes.py) over a relational table of products.      *)
(***************************************************************************)
EXTENDS Integers, Sequences, FiniteSets, TLC

(***************************************************************************)
(* Bounds of the model                                                     *)
(***************************************************************************)
\* how many ids the table's sequence hands out in a run
MaxId == 2
\* the instances of the round trip: digits of a price's coefficient, and
\* the largest exponent of a price in either direction
MaxDigits == 3
MaxExponent == 7

\* concurrent requests between their lookup and their commit
MaxInFlight == 2

(***************************************************************************)
(* Table schema (models.py 31-34)                                          *)
(***************************************************************************)
NameMax == 63
DescriptionMax == 256
PricePrecision == 10
PriceScale == 2

\* Python's None, for an id that is not set
None == 0 - 1

(***************************************************************************)
(* decimal.Decimal: a finite decimal is sign, coefficient digits, exponent *)
(* (value = (-1)^sign * int * 10^exp), as the constructor and __str__ of   *)
(* Python's decimal module treat it.  Strings that are parsed or produced  *)
(* are sequences of one-character strings.                                 *)
(***************************************************************************)
DigitChar == <<"0", "1", "2", "3", "4", "5", "6", "7", "8", "9">>

DigitChars == {"0", "1", "2", "3", "4", "5", "6", "7", "8", "9"}

IsDigitChar(c) == c \in DigitChars

DigitOf(c) ==
    CASE c = "0" -> 0 [] c = "1" -> 1 [] c = "2" -> 2 [] c = "3" -> 3
      [] c = "4" -> 4 [] c = "5" -> 5 [] c = "6" -> 6 [] c = "7" -> 7
      [] c = "8" -> 8 [] c = "9" -> 9

AllDigitChars(s) == \A i \in 1..Len(s) : IsDigitChar(s[i])

\* index of the first character of s that is in cs, 0 when there is none
FirstIn(s, cs) ==
    IF \E i \in 1..Len(s) : s[i] \in cs
    THEN CHOOSE i \in 1..Len(s) : s[i] \in cs /\ \A j \in 1..(i - 1) : s[j] \notin cs
    ELSE 0

RECURSIVE StripZeros(_)
\* str(int(digits)): leading zeros dropped, a lone 0 kept
StripZeros(ds) ==
    IF Len(ds) = 0 THEN <<0>>
    ELSE IF Len(ds) > 1 /\ ds[1] = 0 THEN StripZeros(Tail(ds))
    ELSE ds

RECURSIVE Zeros(_)
Zeros(n) == IF n <= 0 THEN <<>> ELSE <<0>> \o Zeros(n - 1)

RECURSIVE DigitsToNat(_)
DigitsToNat(ds) ==
    IF Len(ds) = 0 THEN 0
    ELSE 10 * DigitsToNat(SubSeq(ds, 1, Len(ds) - 1)) + ds[Len(ds)]

RECURSIVE NatToDigits(_)
NatToDigits(n) == IF n < 10 THEN <<n>> ELSE NatToDigits(n \div 10) \o <<n % 10>>

CharsToDigits(s) == [i \in 1..Len(s) |-> DigitOf(s[i])]

DigitsToChars(ds) == [i \in 1..Len(ds) |-> DigitChar[ds[i] + 1]]

NoDecimal == [sign |-> 0, int |-> <<0>>, exp |-> 0]

\* Decimal(str): [-+]? digits* (. digits*)? (E [-+]? digits+)?  with a digit
\* in the mantissa; anything else raises decimal.InvalidOperation
DecimalFromString(s) ==
    LET body == IF Len(s) > 0 /\ s[1] \in {"-", "+"} THEN Tail(s) ELSE s
        sign == IF Len(s) > 0 /\ s[1] = "-" THEN 1 ELSE 0
        e    == FirstIn(body, {"E", "e"})
        mant == IF e = 0 THEN body ELSE SubSeq(body, 1, e - 1)
        expo == IF e = 0 THEN <<>> ELSE SubSeq(body, e + 1, Len(body))
        dot  == FirstIn(mant, {"."})
        intp == IF dot = 0 THEN mant ELSE SubSeq(mant, 1, dot - 1)
        frac == IF dot = 0 THEN <<>> ELSE SubSeq(mant, dot + 1, Len(mant))
        eneg == Len(expo) > 0 /\ expo[1] = "-"
        edig == IF Len(expo) > 0 /\ expo[1] \in {"-", "+"} THEN Tail(expo) ELSE expo
        ok   == /\ AllDigitChars(intp)
                /\ AllDigitChars(frac)
                /\ Len(intp) + Len(frac) >= 1
                /\ e # 0 => (Len(edig) >= 1 /\ AllDigitChars(edig))
    IN  IF ~ok THEN [exc |-> "InvalidOperation", dec |-> NoDecimal]
        ELSE LET ev == DigitsToNat(CharsToDigits(edig))
             IN [exc |-> "none",
                 dec |-> [sign |-> sign,
                          int  |-> StripZeros(CharsToDigits(intp \o frac)),
                          exp  |-> (IF eneg THEN 0 - ev ELSE ev) - Len(frac)]]

\* Decimal(int)
DecimalFromInt(n) ==
    [exc |-> "none",
     dec |-> [sign |-> IF n < 0 THEN 1 ELSE 0,
              int  |-> NatToDigits(IF n < 0 THEN 0 - n ELSE n),
              exp  |-> 0]]

\* Decimal.__str__: plain notation when exp <= 0 and the number is not too
\* small, scientific notation otherwise
DecimalToString(d) ==
    LET n          == Len(d.int)
        leftdigits == d.exp + n
        dotplace   == IF d.exp <= 0 /\ leftdigits > 0 - 6 THEN leftdigits ELSE 1
        ic         == DigitsToChars(d.int)
        intpart    == IF dotplace <= 0 THEN <<"0">>
                      ELSE IF dotplace >= n
                           THEN ic \o DigitsToChars(Zeros(dotplace - n))
                           ELSE SubSeq(ic, 1, dotplace)
        fracpart   == IF dotplace <= 0
                      THEN <<".">> \o DigitsToChars(Zeros(0 - dotplace)) \o ic
                      ELSE IF dotplace >= n THEN <<>>
                           ELSE <<".">> \o SubSeq(ic, dotplace + 1, n)
        x          == leftdigits - dotplace
        exppart    == IF x = 0 THEN <<>>
                      ELSE <<"E", IF x < 0 THEN "-" ELSE "+">>
                           \o DigitsToChars(NatToDigits(IF x < 0 THEN 0 - x ELSE x))
    IN  (IF d.sign = 1 THEN <<"-">> ELSE <<>>) \o intpart \o fracpart \o exppart

\* Decimal.__eq__: numeric equality, so 250.0 = 250.00 and -0 = 0
DecimalEq(a, b) ==
    LET m  == IF a.exp < b.exp THEN a.exp ELSE b.exp
        da == StripZeros(a.int \o Zeros(a.exp - m))
        db == StripZeros(b.int \o Zeros(b.exp - m))
    IN  /\ da = db
        /\ (da = <<0>> \/ a.sign = b.sign)

RECURSIVE Incr(_)
\* the digits of the coefficient plus one
Incr(ds) ==
    IF Len(ds) = 0 THEN <<1>>
    ELSE IF ds[Len(ds)] < 9
         THEN SubSeq(ds, 1, Len(ds) - 1) \o <<ds[Len(ds)] + 1>>
         ELSE Incr(SubSeq(ds, 1, Len(ds) - 1)) \o <<0>>

\* NumericColumn with the extra digits cut off instead of rounded
NumericColumnTruncating(d) ==
    LET n     == Len(d.int)
        k     == 0 - PriceScale - d.exp
        kept  == IF k <= 0 THEN d.int \o Zeros(0 - k)
                 ELSE IF k >= n THEN <<0>> ELSE SubSeq(d.int, 1, n - k)
        cents == StripZeros(kept)
    IN  [exc |-> IF Len(cents) > PricePrecision THEN "DataError" ELSE "none",
         dec |-> [sign |-> IF cents = <<0>> THEN 0 ELSE d.sign,
                  int  |-> cents,
                  exp  |-> 0 - PriceScale]]

\* price = Column(Numeric(10, 2)): the store rounds the value it is given to
\* PriceScale fractional digits (ties away from zero), refuses a value that
\* then needs more than PricePrecision digits, and hands back a Decimal of
\* exponent -PriceScale
NumericColumn(d) ==
    LET n     == Len(d.int)
        k     == 0 - PriceScale - d.exp
        kept  == IF k <= 0 THEN d.int \o Zeros(0 - k)
                 ELSE IF k >= n THEN <<0>> ELSE SubSeq(d.int, 1, n - k)
        first == IF k <= 0 \/ k > n THEN 0 ELSE d.int[n - k + 1]
        cents == StripZeros(IF first >= 5 THEN Incr(kept) ELSE kept)
    IN  [exc |-> IF Len(cents) > PricePrecision THEN "DataError" ELSE "none",
         dec |-> [sign |-> IF cents = <<0>> THEN 0 ELSE d.sign,
                  int  |-> cents,
                  exp  |-> 0 - PriceScale]]

(***************************************************************************)
(* Requests the clients send.  A JSON body is kind "object" with the keys  *)
(* in has, or "null", "number" (a scalar), or "malformed" (not JSON).  A   *)
(* JSON price is a string (t = "str", its characters in s), an integer     *)
(* (t = "int", n) or null.                                                 *)
(***************************************************************************)
RECURSIVE Rep(_, _)
Rep(c, n) ==
    IF n = 0 THEN ""
    ELSE LET half == Rep(c, n \div 2)
         IN  IF n % 2 = 0 THEN half \o half ELSE half \o half \o c

LongName == Rep("x", NameMax + 1)
FullName == Rep("x", NameMax)
LongDescription == Rep("y", DescriptionMax + 1)

\* the names a path can ask for
Names == {"Widget", "widget", FullName, LongName}

Keys == {"name", "description", "price"}

StrPrice(s) == [t |-> "str", s |-> s, n |-> 0]
IntPrice(n) == [t |-> "int", s |-> <<>>, n |-> n]
NullPrice == [t |-> "null", s |-> <<>>, n |-> 0]

Object(has, id, name, description, price) ==
    [kind |-> "object", has |-> has, id |-> id, name |-> name,
     description |-> description, price |-> price]

NotObject(kind) == [Object({}, None, "", "", NullPrice) EXCEPT !.kind = kind]

Payload(name, description, price) == Object(Keys, None, name, description, price)

\* bodies that deserialize and that the store accepts: the second carries
\* an id, a name of exactly NameMax characters and a price of three
\* fractional digits
WidgetBody == Payload("Widget", "A widget", StrPrice(<<"1", "9", ".", "9", "9">>))

ValidBodies ==
    { WidgetBody,
      Object(Keys \cup {"id"}, 1, FullName, "d2",
             StrPrice(<<"1", "9", ".", "9", "9", "9">>)) }

\* bodies that the store refuses: a name of NameMax + 1 characters, a price
\* of more than PricePrecision digits
RefusedBodies ==
    { Payload(LongName, "A widget", IntPrice(7)),
      Payload("Widget", LongDescription, StrPrice(<<"1", "E", "+", "8">>)) }

\* bodies that do not deserialize
BadBodies ==
    { Payload("Widget", "A widget", StrPrice(<<"a", "b", "c">>)),
      Payload("Widget", "A widget", NullPrice),
      Object({}, None, "", "", NullPrice),
      Object({"name"}, None, "widget", "", NullPrice),
      NotObject("null"),
      NotObject("malformed") }

Bodies == ValidBodies \cup RefusedBodies \cup BadBodies

NoBody == NotObject("none")

\* the Content-Type header: absent, or present with a value
NoHeader == [present |-> FALSE, value |-> ""]
Header(v) == [present |-> TRUE, value |-> v]

ContentTypes ==
    { NoHeader, Header("application/json"), Header("application/xml"),
      Header("application/json; charset=utf-8") }

\* what a POST or PUT carries: any body as application/json, and under every
\* other Content-Type a valid payload, and as XML also text that is no JSON
Submissions ==
    {[ct |-> Header("application/json"), body |-> b] : b \in Bodies}
    \cup {[ct |-> ct, body |-> WidgetBody] :
             ct \in ContentTypes \ {Header("application/json")}}
    \cup {[ct |-> Header("application/xml"), body |-> NotObject("malformed")]}

\* the ids a path can name: MaxId + 1 is never handed out
PathIds == 1..(MaxId + 1)

Request(method, route, id, name, ct, body) ==
    [method |-> method, route |-> route, id |-> id, name |-> name,
     ct |-> ct, body |-> body]

(***************************************************************************)
(* Entity model: class Products (service/models.py)                       *)
(***************************************************************************)
\* Products(): an instance that is not persisted; id, name, description and
\* price are unset (the strings "" and the decimal 0 stand for None)
Products == [id |-> None, name |-> "", description |-> "", price |-> NoDecimal]

\* RowRefused with the name column one character longer
RowRefusedOffByOne(self) ==
    \/ Len(self.name) > NameMax + 1
    \/ Len(self.description) > DescriptionMax
    \/ NumericColumn(self.price).exc # "none"

\* the row a flush would write is refused by the store: String(63),
\* String(256) and Numeric(10, 2) of the table schema
RowRefused(self) ==
    \/ Len(self.name) > NameMax
    \/ Len(self.description) > DescriptionMax
    \/ NumericColumn(self.price).exc # "none"

\* the row as the store holds it and as the instance reads it back after
\* the commit has expired its attributes
RowStored(self) == [self EXCEPT !.price = NumericColumn(self.price).dec]

\* GeneratedId with a fixed default in place of the sequence
GeneratedIdFixed(rows, seq) == 1

\* id = Column(Integer, primary_key=True): the id of a new row is the next
\* value of the table's sequence
GeneratedId(rows, seq) == seq

\* what the store can raise in a commit whatever the row is: nothing, or a
\* failure with its message (the connection lost, a commit patched to
\* raise as in tests/test_models.py)
NoFault == ""

Faults == {NoFault, "Mock commit exception"}

\* the message of the store's refusal of a row
RefusalText(self) ==
    IF Len(self.name) > NameMax \/ Len(self.description) > DescriptionMax
    THEN "value too long for type character varying"
    ELSE "numeric field overflow"

\* how create, update and delete end: the exception raised and its message,
\* the rows and the sequence of the store, the instance as the caller holds
\* it, and how often the session was committed and rolled back
Outcome(exc, text, rows, seq, self, commits, rollbacks) ==
    [exc |-> exc, text |-> text, rows |-> rows, seq |-> seq, self |-> self,
     commits |-> commits, rollbacks |-> rollbacks]

\* except Exception as e: db.session.rollback(); raise DataValidationError(e)
RolledBack(text, rows, seq, self) ==
    Outcome("DataValidationError", text, rows, seq, self, 0, 1)

\* create that inserts the instance with the id its caller set
create_keeping_id(rows, seq, self, burn, fault) ==
    IF fault # NoFault THEN RolledBack(fault, rows, seq, self)
    ELSE IF RowRefused(self) THEN RolledBack(RefusalText(self), rows, seq, self)
    ELSE IF self.id = None
    THEN Outcome("none", "", rows \cup {[RowStored(self) EXCEPT !.id = seq]},
                 seq + 1, [RowStored(self) EXCEPT !.id = seq], 1, 0)
    ELSE IF \E r \in rows : r.id = self.id
    THEN RolledBack("duplicate key value violates unique constraint", rows, seq, self)
    ELSE Outcome("none", "", rows \cup {RowStored(self)}, seq, RowStored(self), 1, 0)

\* Products.create: burn says whether a failed INSERT has consumed a value
\* of the sequence (the store decides)
create(rows, seq, self, burn, fault) ==
    LET s0  == [self EXCEPT !.id = None]
        row == [RowStored(s0) EXCEPT !.id = GeneratedId(rows, seq)]
        spent == IF burn THEN seq + 1 ELSE seq
    IN  IF fault # NoFault THEN RolledBack(fault, rows, spent, s0)
        ELSE IF RowRefused(s0) THEN RolledBack(RefusalText(s0), rows, spent, s0)
        ELSE Outcome("none", "", rows \cup {row}, seq + 1, row, 1, 0)

\* update that writes the instance back even when its row is gone
update_merge(rows, seq, loaded, self, fault) ==
    IF fault # NoFault THEN RolledBack(fault, rows, seq, loaded)
    ELSE IF RowRefused(self) THEN RolledBack(RefusalText(self), rows, seq, loaded)
    ELSE Outcome("none", "", {r \in rows : r.id # self.id} \cup {RowStored(self)},
                 seq, RowStored(self), 1, 0)

\* the UPDATE a flush emits for self: the columns whose value differs from
\* the loaded one, written over the row as the store holds it now
Written(current, loaded, self) ==
    [current EXCEPT
        !.name = IF self.name # loaded.name THEN self.name ELSE @,
        !.description = IF self.description # loaded.description
                        THEN self.description ELSE @,
        !.price = IF ~DecimalEq(self.price, loaded.price) THEN self.price ELSE @]

\* Products.update: self is the persistent instance with its pending
\* changes, loaded the row it was read from.  Without a changed column the
\* flush emits nothing and the commit ends the transaction; an UPDATE that
\* fails, is refused or matches no row is rolled back.  The instance then
\* reads its row again when there is one
update(rows, seq, loaded, self, fault) ==
    IF fault # NoFault THEN RolledBack(fault, rows, seq, loaded)
    ELSE IF Written(loaded, loaded, self) = loaded
    THEN Outcome("none", "", rows, seq,
                 IF \E r \in rows : r.id = self.id
                 THEN CHOOSE r \in rows : r.id = self.id ELSE loaded, 1, 0)
    ELSE IF ~(\E r \in rows : r.id = self.id)
    THEN RolledBack("UPDATE statement on table 'products' expected to update 1 row(s); 0 were matched.",
                    rows, seq, loaded)
    ELSE LET current == CHOOSE r \in rows : r.id = self.id
             row     == Written(current, loaded, self)
         IN  IF RowRefused(row) THEN RolledBack(RefusalText(row), rows, seq, loaded)
             ELSE Outcome("none", "", {r \in rows : r.id # self.id} \cup {RowStored(row)},
                          seq, RowStored(row), 1, 0)

\* delete that never commits the removal
delete_without_commit(rows, seq, self, fault) ==
    Outcome("none", "", rows, seq, self, 0, 0)

\* delete that logs a failure of the store and returns
delete_swallowing(rows, seq, self, fault) ==
    IF fault # NoFault THEN Outcome("none", "", rows, seq, self, 0, 1)
    ELSE Outcome("none", "", {r \in rows : r.id # self.id}, seq, self, 1, 0)

\* Products.delete: a DELETE that matches no row is no failure
delete(rows, seq, self, fault) ==
    IF fault # NoFault THEN RolledBack(fault, rows, seq, self)
    ELSE Outcome("none", "", {r \in rows : r.id # self.id}, seq, self, 1, 0)

\* serialize with the price formatted to two places
serialize_two_places(self) ==
    Object(Keys \cup {"id"}, self.id, self.name, self.description,
           StrPrice(DecimalToString(NumericColumn(self.price).dec)))

\* Products.serialize
serialize(self) ==
    Object(Keys \cup {"id"}, self.id, self.name, self.description,
           StrPrice(DecimalToString(self.price)))

\* Decimal(value) for a JSON value
Decimal(v) ==
    CASE v.t = "str" -> DecimalFromString(v.s)
      [] v.t = "int" -> DecimalFromInt(v.n)
      [] OTHER       -> [exc |-> "TypeError", dec |-> NoDecimal]

Raised(exc, text, self) == [exc |-> exc, text |-> text, self |-> self]

\* deserialize that reads the keys with data.get(): a missing key leaves
\* its default
deserialize_with_defaults(self, data) ==
    IF data.kind # "object"
    THEN Raised("DataValidationError",
                "Invalid Products: body of request contained bad or no data", self)
    ELSE LET p == IF "price" \in data.has THEN Decimal(data.price)
                  ELSE [exc |-> "none", dec |-> NoDecimal]
             s == [self EXCEPT
                     !.name = IF "name" \in data.has THEN data.name ELSE @,
                     !.description = IF "description" \in data.has
                                     THEN data.description ELSE @]
         IN  CASE p.exc = "none" -> Raised("none", "", [s EXCEPT !.price = p.dec])
               [] p.exc = "TypeError" ->
                    Raised("DataValidationError",
                           "Invalid Products: body of request contained bad or no data", s)
               [] OTHER -> Raised(p.exc, "", s)

\* deserialize that also takes the id of the mapping when it has one
deserialize_taking_id(self, data) ==
    IF data.kind = "object" /\ Keys \subseteq data.has
    THEN LET d == deserialize_with_defaults(self, data)
         IN  IF "id" \in data.has THEN [d EXCEPT !.self.id = data.id] ELSE d
    ELSE Raised("DataValidationError", "Invalid Products", self)

\* Products.deserialize: the three assignments in order; KeyError and
\* TypeError become DataValidationError, anything else is not caught
deserialize(self, data) ==
    IF data.kind # "object"
    THEN Raised("DataValidationError",
                "Invalid Products: body of request contained bad or no data", self)
    ELSE IF "name" \notin data.has
    THEN Raised("DataValidationError", "Invalid Products: missing name", self)
    ELSE LET s1 == [self EXCEPT !.name = data.name]
         IN  IF "description" \notin data.has
             THEN Raised("DataValidationError",
                         "Invalid Products: missing description", s1)
             ELSE LET s2 == [s1 EXCEPT !.description = data.description]
                  IN  IF "price" \notin data.has
                      THEN Raised("DataValidationError",
                                  "Invalid Products: missing price", s2)
                      ELSE LET p == Decimal(data.price)
                           IN  CASE p.exc = "none" ->
                                      Raised("none", "", [s2 EXCEPT !.price = p.dec])
                                 [] p.exc = "TypeError" ->
                                      Raised("DataValidationError",
                                             "Invalid Products: body of request contained bad or no data",
                                             s2)
                                 [] OTHER -> Raised(p.exc, "", s2)

\* all that stops at the first row
all_first(rows) == IF rows = {} THEN {} ELSE {CHOOSE r \in rows : TRUE}

\* Products.all
all(rows) == rows

\* find that falls back to the first row of the table
find_or_first(rows, by_id) ==
    IF \E r \in rows : r.id = by_id
    THEN [found |-> TRUE, it |-> CHOOSE r \in rows : r.id = by_id]
    ELSE IF rows # {}
    THEN [found |-> TRUE, it |-> CHOOSE r \in rows : TRUE]
    ELSE [found |-> FALSE, it |-> Products]

\* Products.find: session.get gives the instance or None
find(rows, by_id) ==
    IF \E r \in rows : r.id = by_id
    THEN [found |-> TRUE, it |-> CHOOSE r \in rows : r.id = by_id]
    ELSE [found |-> FALSE, it |-> Products]

Lower(name) == IF name = "Widget" THEN "widget" ELSE name

\* find_by_name that matches without regard to case
find_by_name_ilike(rows, name) == {r \in rows : Lower(r.name) = Lower(name)}

\* Products.find_by_name: filter(cls.name == name)
find_by_name(rows, name) == {r \in rows : r.name = name}

(***************************************************************************)
(* Request handlers (service/routes.py).  Every request runs in an         *)
(* application context of its own: db.session is scoped to it and removed  *)
(* when it ends, so a handler is one step that ends with the removal of    *)
(* its session.                                                            *)
(***************************************************************************)
VARIABLES
    table,      \* the rows of the products table
    id_seq,     \* the next value of the table's id sequence
    request,    \* the request handled last
    response,   \* the response to it
    deleted,    \* history: the ids whose DELETE was answered 200
    posted,     \* history: id and body of each POST answered 201, kept
                \* until a PUT or DELETE names the id
    created,    \* history: the ids of the POSTs answered 201
    session,    \* what db.session holds between two requests
    txn,        \* how often the last request committed and rolled back
    call,       \* the last direct call of create, update or delete
    inflight,   \* concurrent requests that have looked their product up
    instance,   \* round trip: a Products instance in memory
    mapping,    \* round trip: what serialize made of it
    copy,       \* round trip: what deserialize made of the mapping
    stage       \* round trip: "new", "serialized", "deserialized"

service == <<table, id_seq, request, response, deleted, posted, created,
             session, txn>>

roundtrip == <<instance, mapping, copy, stage>>

vars == <<table, id_seq, request, response, deleted, posted, created,
          session, txn, call, inflight, instance, mapping, copy, stage>>

NoMessage == [text |-> "", id |-> None, name |-> ""]

IdNotFound(id) == [text |-> "Product with id {id} not found.", id |-> id, name |-> ""]

NameNotFound(name) ==
    [text |-> "Product with name {name} not found.", id |-> None, name |-> name]

Text(text) == [text |-> text, id |-> None, name |-> ""]

Response(status, exc, message, products, location) ==
    [status |-> status, exc |-> exc, message |-> message,
     products |-> products, location |-> location]

NoRequest == Request("", "", None, "", NoHeader, NoBody)

NoResponse == Response(0, "none", NoMessage, <<>>, None)

\* abort(status, message)
abort(status, message) == Response(status, "HTTPException", message, <<>>, None)

\* service/common/error_handlers.py: DataValidationError is answered 400,
\* an exception nothing handles 500
error_handlers(exc, text) ==
    Response(IF exc = "DataValidationError" THEN 400 ELSE 500, exc, Text(text),
             <<>>, None)

\* check_content_type: TRUE when it returns, FALSE when it aborts with 415
check_content_type(ct, content_type) ==
    IF ~ct.present THEN FALSE
    ELSE IF ct.value = content_type THEN TRUE
    ELSE FALSE

\* the media type of a Content-Type value: its parameters dropped
Mimetype(value) ==
    IF value = "application/json; charset=utf-8" THEN "application/json" ELSE value

\* request.get_json(): 415 unless the media type is JSON, 400 when the body
\* does not parse, else the parsed value (status 0)
get_json(ct, body) ==
    IF ~(ct.present /\ Mimetype(ct.value) = "application/json") THEN 415
    ELSE IF body.kind = "malformed" THEN 400
    ELSE 0

\* the orders in which a query without ORDER BY can return a set of rows
Orderings(S) ==
    {q \in [1..Cardinality(S) -> S] :
        \A i, j \in 1..Cardinality(S) : i # j => q[i] # q[j]}

SerializeAll(q) == [i \in 1..Len(q) |-> serialize(q[i])]

\* db.session: the persistent instances with modifications that no commit
\* has written (dirty), and whether a transaction is open (begun)
CleanSession == [dirty |-> {}, begun |-> FALSE]

\* a statement was sent: the session has begun a transaction
Begun(sess) == [sess EXCEPT !.begun = TRUE]

\* the instance loaded in the session has become self
Modified(sess, loaded, self) ==
    IF self = loaded THEN Begun(sess)
    ELSE [dirty |-> {d \in sess.dirty : d.id # self.id} \cup {self}, begun |-> TRUE]

\* the rows as a read through the session shows them: an instance the
\* session holds is returned as the session holds it
Visible(rows, sess) ==
    {r \in rows : ~(\E d \in sess.dirty : d.id = r.id)}
    \cup {d \in sess.dirty : \E r \in rows : r.id = d.id}

NoCall ==
    [op |-> "", arg |-> Products, fault |-> NoFault, exc |-> "none", text |-> "",
     self |-> Products, commits |-> 0, rollbacks |-> 0]

\* a teardown that leaves the session to the next request
shutdown_session_keep(sess) == [session |-> sess, commits |-> 0]

\* a teardown that commits what the request left open
shutdown_session_commit(sess) ==
    [session |-> CleanSession, commits |-> IF sess.begun THEN 1 ELSE 0]

\* the application context of the request ends: session.remove() rolls back
\* what is open and discards the session
shutdown_session(sess) == [session |-> CleanSession, commits |-> 0]

\* the request ends with the session as the handler left it (after), having
\* committed and rolled back so often
Teardown(after, commits, rollbacks) ==
    LET end == shutdown_session(after)
    IN  /\ session' = end.session
        /\ txn' = [commits |-> commits + end.commits, rollbacks |-> rollbacks]

\* a request handler makes no direct call of the model, handles no
\* concurrent request and no round trip
Handled ==
    /\ call' = NoCall
    /\ UNCHANGED inflight
    /\ UNCHANGED roundtrip

\* GET /
index ==
    /\ request' = Request("GET", "index", None, "", NoHeader, NoBody)
    /\ response' = Response(200, "none", Text("Product API Service"), <<>>, None)
    /\ UNCHANGED <<table, id_seq, deleted, posted, created>>
    /\ Teardown(session, 0, 0)
    /\ Handled

\* POST /products; burn and fault are the store's choices in create
create_products(ct, body) ==
    /\ request' = Request("POST", "create_products", None, "", ct, body)
    /\ IF ~check_content_type(ct, "application/json")
       THEN /\ response' = abort(415, Text("Content-Type must be application/json"))
            /\ UNCHANGED <<table, id_seq, posted, created>>
            /\ Teardown(session, 0, 0)
       ELSE IF get_json(ct, body) # 0
       THEN /\ response' = abort(get_json(ct, body), NoMessage)
            /\ UNCHANGED <<table, id_seq, posted, created>>
            /\ Teardown(session, 0, 0)
       ELSE LET d == deserialize(Products, body)
            IN  IF d.exc # "none"
                THEN /\ response' = error_handlers(d.exc, d.text)
                     /\ UNCHANGED <<table, id_seq, posted, created>>
                     /\ Teardown(session, 0, 0)
                ELSE \E burn \in BOOLEAN, fault \in Faults :
                     LET c == create(Visible(table, session), id_seq, d.self, burn, fault)
                     IN  /\ burn => c.exc # "none"
                         /\ c.seq <= MaxId + 1
                         /\ id_seq' = c.seq
                         /\ IF c.exc # "none"
                            THEN /\ table' = table
                                 /\ response' = error_handlers(c.exc, c.text)
                                 /\ UNCHANGED <<posted, created>>
                                 /\ Teardown(CleanSession, c.commits, c.rollbacks)
                            ELSE /\ table' = c.rows
                                 /\ response' = Response(201, "none", NoMessage,
                                                         <<serialize(c.self)>>, c.self.id)
                                 /\ posted' = posted \cup {[id |-> c.self.id, body |-> body]}
                                 /\ created' = created \cup {c.self.id}
                                 /\ Teardown(Begun(CleanSession), c.commits, c.rollbacks)
    /\ UNCHANGED deleted
    /\ Handled

\* the response of GET /products/<id> over the rows
get_products_response(rows, products_id) ==
    LET product == find(rows, products_id)
    IN  IF ~product.found
        THEN abort(404, IdNotFound(products_id))
        ELSE Response(200, "none", NoMessage, <<serialize(product.it)>>, None)

\* GET /products/<id>
get_products(products_id) ==
    /\ request' = Request("GET", "get_products", products_id, "", NoHeader, NoBody)
    /\ response' = get_products_response(Visible(table, session), products_id)
    /\ UNCHANGED <<table, id_seq, deleted, posted, created>>
    /\ Teardown(Begun(session), 0, 0)
    /\ Handled

\* PUT /products/<id>; fault is the store's choice in update
update_products(products_id, ct, body) ==
    LET seen    == Visible(table, session)
        product == find(seen, products_id)
    IN  /\ request' = Request("PUT", "update_products", products_id, "", ct, body)
        /\ posted' = {e \in posted : e.id # products_id}
        /\ IF ~product.found
           THEN /\ response' = abort(404, IdNotFound(products_id))
                /\ UNCHANGED table
                /\ Teardown(Begun(session), 0, 0)
           ELSE IF get_json(ct, body) # 0
           THEN /\ response' = abort(get_json(ct, body), NoMessage)
                /\ UNCHANGED table
                /\ Teardown(Begun(session), 0, 0)
           ELSE LET d == deserialize(product.it, body)
                IN  IF d.exc # "none"
                    THEN /\ response' = error_handlers(d.exc, d.text)
                         /\ UNCHANGED table
                         /\ Teardown(Modified(session, product.it, d.self), 0, 0)
                    ELSE \E fault \in Faults :
                         LET u == update(seen, id_seq, product.it, d.self, fault)
                         IN  IF u.exc # "none"
                             THEN /\ table' = table
                                  /\ response' = error_handlers(u.exc, u.text)
                                  /\ Teardown(CleanSession, u.commits, u.rollbacks)
                             ELSE /\ table' = u.rows
                                  /\ response' = Response(200, "none", NoMessage,
                                                          <<serialize(u.self)>>, None)
                                  /\ Teardown(Begun(CleanSession), u.commits, u.rollbacks)
        /\ UNCHANGED <<id_seq, deleted, created>>
        /\ Handled

\* GET /products/name/<name>
get_products_by_name(products_name) ==
    LET products == find_by_name(Visible(table, session), products_name)
    IN  /\ request' = Request("GET", "get_products_by_name", None, products_name,
                              NoHeader, NoBody)
        /\ IF products = {}
           THEN response' = abort(404, NameNotFound(products_name))
           ELSE \E q \in Orderings(products) :
                    response' = Response(200, "none", NoMessage, SerializeAll(q), None)
        /\ UNCHANGED <<table, id_seq, deleted, posted, created>>
        /\ Teardown(Begun(session), 0, 0)
        /\ Handled

\* DELETE /products/<id>; fault is the store's choice in delete
delete_products(products_id) ==
    LET seen    == Visible(table, session)
        product == find(seen, products_id)
    IN  /\ request' = Request("DELETE", "delete_products", products_id, "",
                              NoHeader, NoBody)
        /\ posted' = {e \in posted : e.id # products_id}
        /\ IF ~product.found
           THEN /\ response' = abort(404, IdNotFound(products_id))
                /\ UNCHANGED <<table, deleted>>
                /\ Teardown(Begun(session), 0, 0)
           ELSE \E fault \in Faults :
                LET d == delete(seen, id_seq, product.it, fault)
                IN  IF d.exc # "none"
                    THEN /\ response' = error_handlers(d.exc, d.text)
                         /\ UNCHANGED <<table, deleted>>
                         /\ Teardown(CleanSession, d.commits, d.rollbacks)
                    ELSE /\ table' = d.rows
                         /\ response' = Response(200, "none", NoMessage, <<>>, None)
                         /\ deleted' = deleted \cup {products_id}
                         /\ Teardown(CleanSession, d.commits, d.rollbacks)
        /\ UNCHANGED <<id_seq, created>>
        /\ Handled

\* GET /products
list_products ==
    /\ request' = Request("GET", "list_products", None, "", NoHeader, NoBody)
    /\ \E q \in Orderings(all(Visible(table, session))) :
           response' = Response(200, "none", NoMessage, SerializeAll(q), None)
    /\ UNCHANGED <<table, id_seq, deleted, posted, created>>
    /\ Teardown(Begun(session), 0, 0)
    /\ Handled

InitService ==
    /\ table = {}
    /\ id_seq = 1
    /\ request = NoRequest
    /\ response = NoResponse
    /\ deleted = {}
    /\ posted = {}
    /\ created = {}
    /\ session = CleanSession
    /\ txn = [commits |-> 0, rollbacks |-> 0]
    /\ call = NoCall
    /\ inflight = {}

Init ==
    /\ InitService
    /\ instance = Products
    /\ mapping = NoBody
    /\ copy = Raised("none", "", Products)
    /\ stage = "idle"

Next ==
    \/ index
    \/ \E sub \in Submissions : create_products(sub.ct, sub.body)
    \/ \E id \in PathIds : get_products(id)
    \/ \E id \in PathIds, sub \in Submissions : update_products(id, sub.ct, sub.body)
    \/ \E name \in Names : get_products_by_name(name)
    \/ \E id \in PathIds : delete_products(id)
    \/ list_products

Spec == Init /\ [][Next]_vars

(***************************************************************************)
(* Round trip of an instance through serialize and deserialize, as the     *)
(* tests post factory instances (tests/test_routes.py 72-86)               *)
(***************************************************************************)
RECURSIVE DigitSeqs(_)
\* coefficients of at most n digits over a few digits, without leading zero
DigitSeqs(n) ==
    IF n = 0 THEN {}
    ELSE {<<d>> : d \in {0, 1, 5, 9}}
         \cup {q \o <<d>> : q \in {r \in DigitSeqs(n - 1) : r[1] # 0}, d \in {0, 1, 5, 9}}

Decimals ==
    {[sign |-> sg, int |-> q, exp |-> e] :
        sg \in {0, 1}, q \in DigitSeqs(MaxDigits),
        e \in (0 - MaxExponent)..MaxExponent}

Instances ==
    {[id |-> i, name |-> n, description |-> "A widget", price |-> p] :
        i \in {None, 1}, n \in {"Widget", FullName}, p \in Decimals}

InitRoundTrip ==
    /\ InitService
    /\ instance \in Instances
    /\ mapping = NoBody
    /\ copy = Raised("none", "", Products)
    /\ stage = "new"

\* instance.serialize()
Serialize ==
    /\ stage = "new"
    /\ mapping' = serialize(instance)
    /\ stage' = "serialized"
    /\ UNCHANGED <<instance, copy>>
    /\ UNCHANGED <<service, call, inflight>>

\* Products().deserialize(mapping)
Deserialize ==
    /\ stage = "serialized"
    /\ copy' = deserialize(Products, mapping)
    /\ stage' = "deserialized"
    /\ UNCHANGED <<instance, mapping>>
    /\ UNCHANGED <<service, call, inflight>>

NextRoundTrip == Serialize \/ Deserialize

SpecRoundTrip == InitRoundTrip /\ [][NextRoundTrip]_vars

(***************************************************************************)
(* Direct calls of create, update and delete on instances, as              *)
(* tests/test_models.py makes them on factory instances, next to POSTs     *)
(***************************************************************************)
\* ProductsFactory: the id is a sequence that starts at 0, whatever the
\* store holds; an instance made by Products() has none
FactoryInstances ==
    {[id |-> i, name |-> n, description |-> "A widget",
      price |-> Decimal(WidgetBody.price).dec] :
        i \in {None, 0, 1}, n \in {"Widget", LongName}}

\* the names an update assigns: one the store takes, one it refuses
NewNames == {"widget", LongName}

\* the POSTs made next to the direct calls: the valid payloads as JSON, one
\* of them carrying an id
ValidSubmissions ==
    {sub \in Submissions : sub.body \in ValidBodies /\ sub.ct = Header("application/json")}

Call(op, arg, fault, o) ==
    [op |-> op, arg |-> arg, fault |-> fault, exc |-> o.exc, text |-> o.text,
     self |-> o.self, commits |-> o.commits, rollbacks |-> o.rollbacks]

\* a direct call is no request
Called ==
    /\ request' = NoRequest
    /\ response' = NoResponse
    /\ UNCHANGED <<deleted, posted, created, session, txn, inflight>>
    /\ UNCHANGED roundtrip

\* self.create()
EntityCreate(self, burn, fault) ==
    LET c == create(table, id_seq, self, burn, fault)
    IN  /\ burn => c.exc # "none"
        /\ c.seq <= MaxId + 1
        /\ table' = c.rows
        /\ id_seq' = c.seq
        /\ call' = Call("create", self, fault, c)
        /\ Called

\* product = Products.find(id); product.name = name; product.update()
EntityUpdate(by_id, name, fault) ==
    LET product == find(table, by_id)
        self    == [product.it EXCEPT !.name = name]
        u       == update(table, id_seq, product.it, self, fault)
    IN  /\ product.found
        /\ table' = u.rows
        /\ call' = Call("update", self, fault, u)
        /\ UNCHANGED id_seq
        /\ Called

\* product = Products.find(id); product.delete()
EntityDelete(by_id, fault) ==
    LET product == find(table, by_id)
        d       == delete(table, id_seq, product.it, fault)
    IN  /\ product.found
        /\ table' = d.rows
        /\ call' = Call("delete", product.it, fault, d)
        /\ UNCHANGED id_seq
        /\ Called

NextEntity ==
    \/ \E self \in FactoryInstances, burn \in BOOLEAN, fault \in Faults :
           EntityCreate(self, burn, fault)
    \/ \E id \in PathIds, name \in NewNames, fault \in Faults :
           EntityUpdate(id, name, fault)
    \/ \E id \in PathIds, fault \in Faults : EntityDelete(id, fault)
    \/ \E sub \in ValidSubmissions : create_products(sub.ct, sub.body)

SpecEntity == Init /\ [][NextEntity]_vars

(***************************************************************************)
(* Concurrent requests.  Each request has a session and a transaction of   *)
(* its own (READ COMMITTED): a PUT or DELETE first looks its product up,   *)
(* and what it then flushes and commits meets the rows as they are at that *)
(* moment, the store serializing the writers of a row.                     *)
(***************************************************************************)
\* what the concurrent requests carry: a POST the first valid payload, a
\* PUT the same under another name, which changes a product just posted and
\* changes nothing in one already renamed
ConcurrentPosts == {sub \in ValidSubmissions : sub.body = WidgetBody}

RenamedBody == Payload(FullName, "A widget", StrPrice(<<"1", "9", ".", "9", "9">>))

ConcurrentPuts == {[ct |-> Header("application/json"), body |-> RenamedBody]}

InFlight(route, id, ct, body, product) ==
    [route |-> route, id |-> id, ct |-> ct, body |-> body, product |-> product]

\* a step of a concurrent request touches no session kept between requests
Concurrently ==
    /\ call' = NoCall
    /\ UNCHANGED <<session, txn>>
    /\ UNCHANGED roundtrip

\* PUT /products/<id> up to the lookup: product = Products.find(products_id)
update_products_find(products_id, ct, body) ==
    LET product == find(table, products_id)
    IN  /\ Cardinality(inflight) < MaxInFlight
        /\ request' = Request("PUT", "update_products", products_id, "", ct, body)
        /\ IF ~product.found
           THEN /\ response' = abort(404, IdNotFound(products_id))
                /\ UNCHANGED inflight
           ELSE /\ response' = NoResponse
                /\ inflight' = inflight \cup
                       {InFlight("update_products", products_id, ct, body, product.it)}
        /\ UNCHANGED <<table, id_seq, deleted, posted, created>>
        /\ Concurrently

\* PUT /products/<id> from the lookup on: deserialize, update, and
\* serialize, which reads the row again and fails when it is gone
update_products_save(r) ==
    /\ r \in inflight
    /\ r.route = "update_products"
    /\ request' = Request("PUT", "update_products", r.id, "", r.ct, r.body)
    /\ inflight' = inflight \ {r}
    /\ posted' = {e \in posted : e.id # r.id}
    /\ IF get_json(r.ct, r.body) # 0
       THEN /\ response' = abort(get_json(r.ct, r.body), NoMessage)
            /\ UNCHANGED table
       ELSE LET d == deserialize(r.product, r.body)
            IN  IF d.exc # "none"
                THEN /\ response' = error_handlers(d.exc, d.text)
                     /\ UNCHANGED table
                ELSE \E fault \in Faults :
                     LET u == update(table, id_seq, r.product, d.self, fault)
                     IN  /\ table' = u.rows
                         /\ response' =
                                IF u.exc # "none" THEN error_handlers(u.exc, u.text)
                                ELSE IF ~(\E row \in u.rows : row.id = r.id)
                                THEN error_handlers("ObjectDeletedError",
                                                    "Instance has been deleted, or its row is otherwise not present.")
                                ELSE Response(200, "none", NoMessage,
                                              <<serialize(u.self)>>, None)
    /\ UNCHANGED <<id_seq, deleted, created>>
    /\ Concurrently

\* DELETE /products/<id> up to the lookup
delete_products_find(products_id) ==
    LET product == find(table, products_id)
    IN  /\ Cardinality(inflight) < MaxInFlight
        /\ request' = Request("DELETE", "delete_products", products_id, "",
                              NoHeader, NoBody)
        /\ IF ~product.found
           THEN /\ response' = abort(404, IdNotFound(products_id))
                /\ UNCHANGED inflight
           ELSE /\ response' = NoResponse
                /\ inflight' = inflight \cup
                       {InFlight("delete_products", products_id, NoHeader, NoBody,
                                 product.it)}
        /\ UNCHANGED <<table, id_seq, deleted, posted, created>>
        /\ Concurrently

\* DELETE /products/<id> from the lookup on: product.delete()
delete_products_delete(r) ==
    \E fault \in Faults :
    LET d == delete(table, id_seq, r.product, fault)
    IN  /\ r \in inflight
        /\ r.route = "delete_products"
        /\ request' = Request("DELETE", "delete_products", r.id, "", NoHeader, NoBody)
        /\ inflight' = inflight \ {r}
        /\ posted' = {e \in posted : e.id # r.id}
        /\ table' = d.rows
        /\ IF d.exc # "none"
           THEN /\ response' = error_handlers(d.exc, d.text)
                /\ UNCHANGED deleted
           ELSE /\ response' = Response(200, "none", NoMessage, <<>>, None)
                /\ deleted' = deleted \cup {r.id}
        /\ UNCHANGED <<id_seq, created>>
        /\ Concurrently

NextConcurrent ==
    \/ \E sub \in ConcurrentPosts : create_products(sub.ct, sub.body)
    \/ \E id \in PathIds, sub \in ConcurrentPuts :
           update_products_find(id, sub.ct, sub.body)
    \/ \E r \in inflight : update_products_save(r)
    \/ \E id \in PathIds : delete_products_find(id)
    \/ \E r \in inflight : delete_products_delete(r)

SpecConcurrent == Init /\ [][NextConcurrent]_vars

(***************************************************************************)
(* Properties                                                              *)
(***************************************************************************)
ExactJson(req) == req.ct.present /\ req.ct.value = "application/json"

Persisted(rows, id) == \E r \in rows : r.id = id

HasAllKeys(body) == body.kind = "object" /\ Keys \subseteq body.has

\* C1: a POST /products or PUT /products/{id} whose Content-Type header is
\* missing or is not exactly application/json is answered 415, whatever the
\* body and whether or not the id exists.
C1_ContentTypeGate ==
    (request.method \in {"POST", "PUT"} /\ ~ExactJson(request))
        => response.status = 415

\* C2: once DELETE /products/X has been answered 200, find(X) gives the
\* not-found sentinel and GET /products/X is answered 404, in every later
\* state.
C2_DeleteThenFind ==
    \A X \in deleted :
        /\ ~find(table, X).found
        /\ get_products_response(table, X).status = 404

\* a product was deleted and another one created afterwards
C2_Witness ==
    /\ deleted # {}
    /\ table # {}
    /\ request.route = "create_products"
    /\ response.status = 201

\* C3: every persisted product has a non-null id, no two persisted products
\* share an id, and a successful create leaves the instance with a non-null
\* id that exactly one persisted product has.
C3_IdsUnique ==
    /\ \A r \in table : r.id # None
    /\ \A r1, r2 \in table : r1.id = r2.id => r1 = r2
    /\ (request.route = "create_products" /\ response.status = 201) =>
           /\ response.products[1].id # None
           /\ Cardinality({r \in table : r.id = response.products[1].id}) = 1

\* a second product has just been created next to a persisted one
C3_Witness ==
    /\ Cardinality(table) = 2
    /\ request.route = "create_products"
    /\ response.status = 201

RECURSIVE Pow10(_)
Pow10(n) == IF n <= 0 THEN 1 ELSE 10 * Pow10(n - 1)

\* a decimal of at most three fractional digits, in thousandths
Thousandths(d) ==
    (IF d.sign = 1 THEN 0 - 1 ELSE 1) * DigitsToNat(d.int) * Pow10(d.exp + 3)

\* stored is sent rounded to PriceScale fractional digits
RoundedTo2(stored, sent) ==
    LET diff == Thousandths(stored) - Thousandths(sent)
    IN  /\ stored.exp = 0 - PriceScale
        /\ diff <= 5
        /\ 0 - diff <= 5

\* the product of a POST answered 201 as find and GET on its Location show it
Found(e) == find(table, e.id)

Got(e) == get_products_response(table, e.id)

\* C4 as stated: for every product created by a POST answered 201 and not
\* named by a PUT or DELETE since, find(id) and GET on the Location URL give
\* name, description and price equal to the posted ones.
C4_FindAfterCreateExact ==
    \A e \in posted :
        /\ Found(e).found
        /\ Found(e).it.name = e.body.name
        /\ Found(e).it.description = e.body.description
        /\ DecimalEq(Found(e).it.price, Decimal(e.body.price).dec)
        /\ Got(e).status = 200
        /\ Got(e).products[1].name = e.body.name
        /\ Got(e).products[1].description = e.body.description
        /\ DecimalEq(Decimal(Got(e).products[1].price).dec, Decimal(e.body.price).dec)

\* C4 amended: ... give the posted name and description, and the posted
\* price rounded to two fractional digits.
C4_FindAfterCreateRounded ==
    \A e \in posted :
        /\ Found(e).found
        /\ Found(e).it.name = e.body.name
        /\ Found(e).it.description = e.body.description
        /\ RoundedTo2(Found(e).it.price, Decimal(e.body.price).dec)
        /\ Got(e).status = 200
        /\ Got(e).products[1].id = e.id
        /\ Got(e).products[1].name = e.body.name
        /\ Got(e).products[1].description = e.body.description
        /\ RoundedTo2(Decimal(Got(e).products[1].price).dec, Decimal(e.body.price).dec)

\* a product posted with a price of three fractional digits is read back
\* while another product is persisted
C4_Witness ==
    \E e \in posted :
        /\ Decimal(e.body.price).dec.exp < 0 - PriceScale
        /\ request.route = "get_products"
        /\ request.id = e.id
        /\ response.status = 200
        /\ Cardinality(table) = 2

\* C5: for every name n, find_by_name(n) is exactly the persisted products
\* whose name is n; GET /products/name/{n} is answered 404 when there is
\* none and 200 with exactly those products otherwise.
C5_NameFilterExact ==
    /\ \A n \in Names : find_by_name(table, n) = {r \in table : r.name = n}
    /\ request.route = "get_products_by_name" =>
           LET match == {r \in table : r.name = request.name}
               got   == response.products
           IN  IF match = {}
               THEN response.status = 404 /\ got = <<>>
               ELSE /\ response.status = 200
                    /\ Len(got) = Cardinality(match)
                    /\ {got[i] : i \in 1..Len(got)} = {serialize(r) : r \in match}

\* of two persisted products the name asked for matches one
C5_Witness ==
    /\ request.route = "get_products_by_name"
    /\ response.status = 200
    /\ Len(response.products) = 1
    /\ Cardinality(table) = 2

\* C6: a create() or update() of a product whose name is longer than
\* NameMax characters fails with DataValidationError and leaves the rows of
\* the table as they were.
C6_LengthRejected ==
    [][ ( /\ request'.route \in {"create_products", "update_products"}
          /\ ExactJson(request')
          /\ HasAllKeys(request'.body)
          /\ Decimal(request'.body.price).exc = "none"
          /\ Len(request'.body.name) > NameMax
          /\ request'.route = "update_products" => Persisted(table, request'.id) )
        => (response'.exc = "DataValidationError" /\ table' = table) ]_vars

\* an update of a persisted product to a name that is too long has failed
C6_Witness ==
    /\ request.route = "update_products"
    /\ Len(request.body.name) > NameMax
    /\ Persisted(table, request.id)
    /\ response.exc = "DataValidationError"

\* C7: deserializing what serialize() made of an instance gives name,
\* description and price equal to the instance's (the price as a decimal),
\* and serialize() renders the price as a string.
C7_RoundTrip ==
    /\ stage \in {"serialized", "deserialized"} => mapping.price.t = "str"
    /\ stage = "deserialized" =>
           /\ copy.exc = "none"
           /\ copy.self.name = instance.name
           /\ copy.self.description = instance.description
           /\ DecimalEq(copy.self.price, instance.price)

\* a negative price of more than two fractional digits has made the trip
C7_Witness ==
    /\ stage = "deserialized"
    /\ instance.price.sign = 1
    /\ instance.price.exp < 0 - PriceScale
    /\ Len(instance.price.int) > 1

\* C8: a PUT or DELETE on /products/{id} where no persisted product has
\* that id is answered 404 with a message naming the id and leaves the rows
\* of the table as they were.
C8_MissingIdIs404 ==
    [][ ( /\ request'.route \in {"update_products", "delete_products"}
          /\ ~Persisted(table, request'.id) )
        => ( /\ response'.status = 404
             /\ response'.message = IdNotFound(request'.id)
             /\ table' = table ) ]_vars

\* a PUT with a valid payload named an id that no persisted product has,
\* while another product is persisted
C8_Witness ==
    /\ request.route = "update_products"
    /\ ExactJson(request)
    /\ request.body \in ValidBodies
    /\ table # {}
    /\ ~Persisted(table, request.id)
    /\ response.status = 404

\* C9: deserialize of a mapping that has name, description and price, whose
\* price cannot be parsed as a decimal, fails with DataValidationError.
C9_BadPriceIsValidationError ==
    ( /\ request.route \in {"create_products", "update_products"}
      /\ HasAllKeys(request.body)
      /\ Decimal(request.body.price).exc # "none"
      /\ response.status \notin {404, 415} )
        => response.exc = "DataValidationError"

\* C10: a POST /products as application/json whose JSON object lacks a
\* required key is answered 400 and leaves the rows of the table as they
\* were.
C10_MissingKeyIs400 ==
    [][ ( /\ request'.route = "create_products"
          /\ ExactJson(request')
          /\ request'.body.kind = "object"
          /\ ~(Keys \subseteq request'.body.has) )
        => (response'.status = 400 /\ table' = table) ]_vars

\* a POST with a name but no price was answered 400 while a product is
\* persisted
C10_Witness ==
    /\ request.route = "create_products"
    /\ ExactJson(request)
    /\ request.body.kind = "object"
    /\ "name" \in request.body.has
    /\ "price" \notin request.body.has
    /\ response.status = 400
    /\ table # {}

Ids(rows) == {r.id : r \in rows}

\* C11: GET /products is answered 200 with exactly one serialized entry per
\* persisted product, the persisted products being those created and not
\* deleted since, and with the empty sequence when there is none.
C11_ListIsThePersisted ==
    /\ Ids(table) = created \ deleted
    /\ request.route = "list_products" =>
           /\ response.status = 200
           /\ Len(response.products) = Cardinality(table)
           /\ {response.products[i] : i \in 1..Len(response.products)}
                  = {serialize(r) : r \in table}

\* two products are persisted and the list has just been asked for
C11_Witness ==
    /\ request.route = "list_products"
    /\ Cardinality(table) = 2
    /\ Len(response.products) = 2

\* the failure the store raises in the call c, NoFault when it raises none
StoreFailure(c) ==
    IF c.fault # NoFault THEN c.fault
    ELSE IF c.op \in {"create", "update"} /\ RowRefused(c.arg) THEN RefusalText(c.arg)
    ELSE NoFault

\* C12: when the store raises a failure during create(), update() or
\* delete(), the call rolls back exactly once, commits nothing and raises
\* DataValidationError with the message of the failure; when the store
\* raises none, the call returns without a rollback.
C12_StoreFailureRewrapped ==
    call.op \in {"create", "update", "delete"} =>
        IF StoreFailure(call) # NoFault
        THEN /\ call.exc = "DataValidationError"
             /\ call.text = StoreFailure(call)
             /\ call.rollbacks = 1
             /\ call.commits = 0
        ELSE /\ call.exc = "none"
             /\ call.rollbacks = 0

\* the commit of a delete of one of two persisted products has failed
C12_Witness ==
    /\ call.op = "delete"
    /\ call.fault # NoFault
    /\ call.exc = "DataValidationError"
    /\ Cardinality(table) = 2

\* C14: a create() that succeeds, whatever id its caller had set on the
\* instance, and a POST /products answered 201, whatever id its body
\* carries, add exactly one row, whose id is the next value of the store's
\* sequence and the id of no row before, and leave every row that was
\* persisted as it was; one that fails leaves the rows as they were.
C14_CallerIdDiscarded ==
    [][ (call'.op = "create" \/ request'.route = "create_products") =>
            LET direct == call'.op = "create"
                ok     == IF direct THEN call'.exc = "none" ELSE response'.status = 201
                got    == IF direct THEN call'.self ELSE response'.products[1]
            IN  IF ok
                THEN /\ got.id = id_seq
                     /\ ~Persisted(table, id_seq)
                     /\ table \subseteq table'
                     /\ Cardinality(table') = Cardinality(table) + 1
                     /\ Ids(table') = Ids(table) \cup {id_seq}
                ELSE table' = table ]_vars

\* a create() on an instance carrying the id of a persisted product has
\* succeeded, and that product is still persisted next to the new one
C14_Witness ==
    /\ call.op = "create"
    /\ call.exc = "none"
    /\ call.arg.id # None
    /\ call.arg.id # call.self.id
    /\ Persisted(table, call.arg.id)
    /\ Persisted(table, call.self.id)

\* the row of rows that has the id
Row(rows, id) == CHOOSE r \in rows : r.id = id

\* a PUT answered 200 has changed nothing but the row of its id, and that
\* row's name and description are the body's
UpdateFrame ==
    /\ Persisted(table, request'.id)
    /\ Ids(table') = Ids(table)
    /\ Cardinality(table') = Cardinality(table)
    /\ {r \in table' : r.id # request'.id} = {r \in table : r.id # request'.id}
    /\ Row(table', request'.id).name = request'.body.name
    /\ Row(table', request'.id).description = request'.body.description
    /\ response'.products[1].id = request'.id

\* C13 as stated: a PUT /products/{id} answered 200 changes only the name,
\* description and price of the product with that id, to the values in the
\* body; its id, the set of persisted ids and every other product stay.
C13_UpdateExact ==
    [][ (request'.route = "update_products" /\ response'.status = 200) =>
            /\ UpdateFrame
            /\ DecimalEq(Row(table', request'.id).price,
                         Decimal(request'.body.price).dec) ]_vars

\* C13 amended: ... changes only the name and description, to the values in
\* the body, and the price, to the body's price rounded to two fractional
\* digits; its id, the set of persisted ids and every other product stay.
C13_UpdateRounded ==
    [][ (request'.route = "update_products" /\ response'.status = 200) =>
            /\ UpdateFrame
            /\ RoundedTo2(Row(table', request'.id).price,
                          Decimal(request'.body.price).dec) ]_vars

\* a PUT on product 2 whose body carries the id of product 1, another name
\* and a price of three fractional digits was answered 200
C13_Witness ==
    /\ request.route = "update_products"
    /\ response.status = 200
    /\ "id" \in request.body.has
    /\ request.body.id # request.id
    /\ Persisted(table, request.body.id)
    /\ Row(table, request.body.id).name # request.body.name
    /\ Decimal(request.body.price).dec.exp < 0 - PriceScale

\* the request req is a PUT on a persisted product whose body is read as
\* JSON and fails in deserialize
FailsInDeserialize(rows, req) ==
    /\ req.route = "update_products"
    /\ Persisted(rows, req.id)
    /\ get_json(req.ct, req.body) = 0
    /\ deserialize(Row(rows, req.id), req.body).exc # "none"

C16_GetCommitsNothing ==
    [][ /\ txn'.commits <= 1
        /\ request'.method = "GET" =>
               /\ response'.status \in {200, 404}
               /\ txn'.commits = 0
               /\ table' = table
               /\ id_seq' = id_seq ]_vars

\* a GET by a name that none of two persisted products has was answered 404
C16_Witness ==
    /\ request.method = "GET"
    /\ request.route = "get_products_by_name"
    /\ response.status = 404
    /\ Cardinality(table) = 2
    /\ txn.commits = 0

\* C17: under every interleaving of concurrent POST, PUT and DELETE
\* requests, an id whose DELETE has committed and was answered 200 is the id
\* of no row ever after: find does not give it and GET is answered 404, also
\* after a PUT that had looked the product up before has committed, and the
\* sequence is past it, so that no create is assigned it.
C17_DeletedNeverReturns ==
    \A X \in deleted :
        /\ ~Persisted(table, X)
        /\ get_products_response(table, X).status = 404
        /\ X < id_seq

\* a PUT had looked its product up, the DELETE of that product committed,
\* and the PUT's commit then failed, while another product is persisted
C17_Witness ==
    /\ request.route = "update_products"
    /\ request.id \in deleted
    /\ response.exc = "DataValidationError"
    /\ response.status = 400
    /\ ExactJson(request)
    /\ request.body = RenamedBody
    /\ table # {}
====
